---- MODULE Spec2Model ----
(***************************************************************************)
(* Model of api_factory/schema/naming.py (Naming.__init__, Naming.__bool__) *)
(* and api_factory/schema/wrappers.py (Method.field_headers,               *)
(* Service.pb2_modules, Service.has_lro).                                  *)
(*                                                                         *)
(* A Python str is a sequence of one-character strings; None is the        *)
(* sequence NoneVal, which no str equals.                                  *)
(***************************************************************************)
EXTENDS Integers, Sequences, FiniteSets, TLC

\* ------------------------------------------------------------------------
\* Bounds of the model.
\* ------------------------------------------------------------------------
MaxFiles == 2

MaxPathLen == 4

MaxMethods == 2

\* ------------------------------------------------------------------------
\* Python str primitives.
\* ------------------------------------------------------------------------
NoneVal == <<"<None>">>

LowerSeq == <<"a","b","c","d","e","f","g","h","i","j","k","l","m",
              "n","o","p","q","r","s","t","u","v","w","x","y","z">>

UpperSeq == <<"A","B","C","D","E","F","G","H","I","J","K","L","M",
              "N","O","P","Q","R","S","T","U","V","W","X","Y","Z">>

DigitSeq == <<"0","1","2","3","4","5","6","7","8","9">>

Range(s) == {s[n] : n \in DOMAIN s}

LowerLetters == Range(LowerSeq)

UpperLetters == Range(UpperSeq)

Digits == Range(DigitSeq)

\* The characters of the model in code point order (str comparison order).
CharOrder == <<" ", "*", ".", "/">> \o DigitSeq \o <<":", "=">> \o UpperSeq
             \o <<"_">> \o LowerSeq \o <<"{", "}">>

Ord(c) == CHOOSE n \in DOMAIN CharOrder : CharOrder[n] = c

\* str.upper() and str.lower() of one character.
UpperChar(c) ==
    IF c \in LowerLetters
    THEN UpperSeq[CHOOSE n \in DOMAIN LowerSeq : LowerSeq[n] = c]
    ELSE c

LowerChar(c) ==
    IF c \in UpperLetters
    THEN LowerSeq[CHOOSE n \in DOMAIN UpperSeq : UpperSeq[n] = c]
    ELSE c

\* str.capitalize(): first character upper-cased, the rest lower-cased.
Capitalize(s) ==
    [n \in DOMAIN s |-> IF n = 1 THEN UpperChar(s[n]) ELSE LowerChar(s[n])]

\* a < b for two str (lexicographic, by code point).
RECURSIVE StrLess(_, _)
StrLess(a, b) ==
    IF a = <<>> THEN b # <<>>
    ELSE IF b = <<>> THEN FALSE
    ELSE IF a[1] = b[1] THEN StrLess(Tail(a), Tail(b))
    ELSE Ord(a[1]) < Ord(b[1])

\* min() and max() of a non-empty collection of str.
StrMin(S) == CHOOSE x \in S : \A y \in S : x = y \/ StrLess(x, y)

StrMax(S) == CHOOSE x \in S : \A y \in S : x = y \/ StrLess(y, x)

\* s.split('.'): the pieces between the dots, empty pieces included.
RECURSIVE SplitDot(_)
SplitDot(s) ==
    IF \A n \in DOMAIN s : s[n] # "."
    THEN <<s>>
    ELSE LET d == CHOOSE n \in DOMAIN s :
                      s[n] = "." /\ \A m \in 1..(n - 1) : s[m] # "."
         IN  <<SubSeq(s, 1, d - 1)>> \o SplitDot(SubSeq(s, d + 1, Len(s)))

\* '.'.join(parts)
RECURSIVE JoinDot(_)
JoinDot(parts) ==
    IF parts = <<>> THEN <<>>
    ELSE IF Len(parts) = 1 THEN parts[1]
    ELSE parts[1] \o <<".">> \o JoinDot(Tail(parts))

\* Truth value of a str or None.
Truthy(v) == v # NoneVal /\ v # <<>>


\* ------------------------------------------------------------------------
\* os.path.commonprefix
\* ------------------------------------------------------------------------
\* The character-wise loop of commonprefix over s1 = min(m), s2 = max(m):
\* the first index at which they differ ends the prefix.
PrefixOfMinMax(s1, s2) ==
    LET same == {n \in 0..Len(s1) : \A m \in 1..n : s1[m] = s2[m]}
        k    == CHOOSE n \in same : \A m \in same : m <= n
    IN  SubSeq(s1, 1, k)

commonprefix(m) ==
    IF m = {} THEN <<>> ELSE PrefixOfMinMax(StrMin(m), StrMax(m))

\* ------------------------------------------------------------------------
\* The package regex of Naming.__init__, matched by re.search.
\* ------------------------------------------------------------------------
\* [a-z0-9_.]
NamespaceChars == LowerLetters \cup Digits \cup {"_", "."}

\* [a-z0-9_]
NameChars == LowerLetters \cup Digits \cup {"_"}

At(s, n) == IF n \in DOMAIN s THEN s[n] ELSE ""

\* Index of the last character of the longest run of characters of class
\* that starts at index p (p - 1 when the run is empty): a greedy [class]*.
RunEnd(s, p, class) ==
    LET ok == {n \in p..Len(s) : \A m \in p..n : s[m] \in class}
    IN  IF ok = {} THEN p - 1 ELSE CHOOSE n \in ok : \A m \in ok : m <= n

StartsWithAt(s, p, w) == SubSeq(s, p, p + Len(w) - 1) = w

\* ((alpha|beta|test)[0-9])* from index p on: index of the last character.
RECURSIVE StageEnd(_, _)
StageEnd(s, p) ==
    LET words == {<<"a","l","p","h","a">>, <<"b","e","t","a">>,
                  <<"t","e","s","t">>}
        hit   == {w \in words : /\ p + Len(w) <= Len(s)
                                /\ StartsWithAt(s, p + 1, w)
                                /\ s[p + Len(w) + 1] \in Digits}
    IN  IF hit = {} THEN p
        ELSE LET w == CHOOSE x \in hit : TRUE IN StageEnd(s, p + Len(w) + 1)

\* (\.(?P<version>v[0-9]+(p[0-9]+)?((alpha|beta|test)[0-9])*))? tried at
\* index p, right after the name: the version group, or None.
VersionGroup(s, p) ==
    LET d == RunEnd(s, p + 2, Digits)
        q == RunEnd(s, d + 2, Digits)
        e == IF At(s, d + 1) = "p" /\ q >= d + 2 THEN q ELSE d
    IN  IF At(s, p) = "." /\ At(s, p + 1) = "v" /\ d >= p + 2
        THEN SubSeq(s, p + 1, StageEnd(s, e))
        ELSE NoneVal

\* (?P<namespace>[a-z0-9_.]+\.)? is greedy: the engine gives the group the
\* longest text ending in a dot that still lets (?P<name>[a-z0-9_]+) match
\* right after it. The set holds the candidate positions of that dot.
NamespaceDots(s) ==
    {k \in 2..(Len(s) - 1) : /\ s[k] = "."
                             /\ \A m \in 1..(k - 1) : s[m] \in NamespaceChars
                             /\ s[k + 1] \in NameChars}

\* re.search(pattern, root_package): found is FALSE when it returns None,
\* otherwise namespace, name and version are the match's groupdict().
search(s) ==
    LET dots  == NamespaceDots(s)
        k     == IF dots = {} THEN 0
                 ELSE CHOOSE n \in dots : \A m \in dots : m <= n
        e     == RunEnd(s, k + 1, NameChars)
    IN  IF e < k + 1
        THEN [found |-> FALSE, namespace |-> NoneVal, name |-> NoneVal,
              version |-> NoneVal]
        ELSE [found |-> TRUE,
              namespace |-> IF k = 0 THEN NoneVal ELSE SubSeq(s, 1, k),
              name |-> SubSeq(s, k + 1, e),
              version |-> VersionGroup(s, e + 1)]

\* ------------------------------------------------------------------------
\* Inputs of Naming.__init__: the file descriptors.
\* ------------------------------------------------------------------------
\* The package directives of the files ("" when a file has none).
Packages ==
    {<<>>,
     <<"l","i","b">>,
     <<"e","x",".","l","i","b">>,
     <<"e","x",".","b","a","r">>,
     <<"e","x",".","l","i","b","1">>,
     <<"e","x",".","l","i","b","2">>,
     <<"e","x",".","l","i","b",".","v","1">>,
     <<"e","x",".","l","i","b",".","v","1","b","e","t","a","1">>,
     <<"e","x",".","l","i","b",".","v","2">>,
     <<"l","i","b",".","v","1">>}

Acme == <<"A","c","m","e"," ","L","i","b","r","a","r","y">>

Other == <<"O","t","h","e","r">>

Pkg == <<"P","k","g">>

Ns == <<"N","s">>

Url == <<"u">>

Meta(pn, ns, prod, url) ==
    [package_name |-> pn, package_namespace |-> ns, product_name |-> prod,
     product_url |-> url]

\* The google.api.metadata annotation of a file; a file without one reads
\* as the default message, whose fields are all empty.
NoMeta == Meta(<<>>, <<>>, <<>>, <<>>)

Metas ==
    {NoMeta,
     Meta(<<>>, <<>>, Acme, <<>>),
     Meta(<<>>, <<>>, Other, <<>>),
     Meta(Pkg, <<Ns>>, Acme, Url),
     Meta(Pkg, <<>>, <<>>, Url),
     Meta(Pkg, <<>>, Acme, <<>>),
     Meta(<<>>, <<>>, <<>>, Url),
     Meta(<<>>, <<Ns>>, <<>>, <<>>)}

FileDescriptors == [package : Packages, options : Metas]

SeqsUpTo(S, n) == UNION {[1..k -> S] : k \in 0..n}


\* ------------------------------------------------------------------------
\* State.
\* ------------------------------------------------------------------------
VARIABLES
    file_descriptors,   \* Naming.__init__: the argument, in iteration order
    pc,                 \* Naming.__init__: the statement to execute next
    proto_packages,     \* Naming.__init__: local
    root_package,       \* Naming.__init__: local
    package_info,       \* Naming.__init__: local
    metadata_info,      \* Naming.__init__: local
    fd_index,           \* Naming.__init__: files the metadata loop has read
    self,               \* the Naming instance's five fields
    assigned,           \* the fields object.__setattr__ has written on self
    exc,                \* the exception Naming.__init__ ended with, or ""
    inst,               \* Naming.__bool__: the instance
    truth,              \* Naming.__bool__: the outcome
    http,               \* Method.field_headers: the method's http annotation
    headers,            \* Method.field_headers: the outcome
    methods,            \* Service: the methods, in declaration order
    modules,            \* Service.pb2_modules: the outcome
    lro,                \* Service.has_lro: the outcome
    called              \* the properties and methods evaluated so far

naming_vars == <<file_descriptors, pc, proto_packages, root_package,
                 package_info, metadata_info, fd_index, self, assigned, exc>>

bool_vars == <<inst, truth>>

method_vars == <<http, headers>>

service_vars == <<methods, modules, lro>>

vars == <<naming_vars, bool_vars, method_vars, service_vars, called>>

\* What a step of Naming.__init__ leaves alone.
NotNaming == <<bool_vars, method_vars, service_vars, called>>

\* ------------------------------------------------------------------------
\* NamingBase and Naming.__init__
\* ------------------------------------------------------------------------
\* The dataclass fields of NamingBase, in definition order: the order in
\* which dataclasses.asdict(...).items() yields them.
FieldOrder == <<"name", "namespace", "version", "product_name", "product_url">>

Fields == Range(FieldOrder)

NamingBase(name, namespace, version, product_name, product_url) ==
    [name |-> name, namespace |-> namespace, version |-> version,
     product_name |-> product_name, product_url |-> product_url]

NoNaming == NamingBase(<<>>, <<>>, <<>>, <<>>, <<>>)

\* Truth value of the field k of a NamingBase: namespace is a tuple or a
\* list, the other fields are a str or None.
FieldTruthy(k, v) == IF k = "namespace" THEN v # <<>> ELSE Truthy(v)

\* bool(naming) for a NamingBase: the class defines neither __bool__ nor
\* __len__, so every instance is true.
NamingBaseTruth(naming) == TRUE

\* Lines 82-88: the package-derived record built from the groupdict.
PackageInfo(match) ==
    NamingBase(Capitalize(match.name),
               [n \in DOMAIN SplitDot(match.namespace) |->
                    Capitalize(SplitDot(match.namespace)[n])],
               match.version,
               Capitalize(match.name),
               <<>>)

\* Lines 103-110: the record built from one file's metadata annotation.
MetadataNaming(meta) ==
    NamingBase(IF Truthy(meta.package_name) THEN meta.package_name
                                            ELSE meta.product_name,
               meta.package_namespace,
               <<>>,
               meta.product_name,
               meta.product_url)

Raise(e) ==
    /\ pc' = "raised"
    /\ exc' = e

\* Lines 69-70. os.path.commonprefix returns '' for an empty collection.
\* For a non-empty set it reads m[0]: interpreters from Python 3.6 on raise
\* TypeError there (a set is not subscriptable), earlier ones went straight
\* to min(m) and max(m). Both outcomes are kept.
ComputeRootPackage ==
    /\ pc = "root_package"
    /\ LET packages == {file_descriptors[n].package : n \in DOMAIN file_descriptors}
       IN  /\ proto_packages' = packages
           /\ \/ /\ packages # {}
                 /\ Raise("TypeError")
                 /\ UNCHANGED root_package
              \/ /\ root_package' = commonprefix(packages)
                 /\ pc' = "search"
                 /\ exc' = exc
    /\ UNCHANGED <<file_descriptors, package_info, metadata_info, fd_index,
                   self, assigned, NotNaming>>

\* Lines 77-88. re.search(...) is None when nothing matches, and
\* .groupdict() on None raises AttributeError; so does .split on a
\* namespace group that took no part in the match.
MatchPackage ==
    /\ pc = "search"
    /\ LET match == search(root_package)
       IN  IF ~match.found \/ match.namespace = NoneVal
           THEN Raise("AttributeError") /\ UNCHANGED package_info
           ELSE /\ package_info' = PackageInfo(match)
                /\ pc' = "check_version"
                /\ exc' = exc
    /\ UNCHANGED <<file_descriptors, proto_packages, root_package,
                   metadata_info, fd_index, self, assigned, NotNaming>>

\* Lines 92-94.
CheckVersion ==
    /\ pc = "check_version"
    /\ IF ~Truthy(package_info.version) /\ Cardinality(proto_packages) > 1
       THEN Raise("ValueError: version")
       ELSE pc' = "collect" /\ exc' = exc
    /\ UNCHANGED <<file_descriptors, proto_packages, root_package,
                   package_info, metadata_info, fd_index, self, assigned,
                   NotNaming>>

\* Lines 102-112: one iteration of the loop over the files.
CollectMetadata ==
    /\ pc = "collect"
    /\ fd_index < Len(file_descriptors)
    /\ LET meta   == file_descriptors[fd_index + 1].options
           naming == MetadataNaming(meta)
       IN  metadata_info' = IF NamingBaseTruth(naming)
                            THEN metadata_info \cup {naming}
                            ELSE metadata_info
    /\ fd_index' = fd_index + 1
    /\ UNCHANGED <<file_descriptors, pc, proto_packages, root_package,
                   package_info, self, assigned, exc, NotNaming>>

\* Lines 116-120 placed after the loop of lines 125-126: the fields of
\* package_info are written before the consistency check.
CheckMetadata_after_write ==
    /\ pc = "collect"
    /\ fd_index = Len(file_descriptors)
    /\ self' = package_info
    /\ assigned' = Fields
    /\ IF Cardinality(metadata_info) > 1
       THEN Raise("ValueError: metadata")
       ELSE pc' = "merge" /\ exc' = exc
    /\ UNCHANGED <<file_descriptors, proto_packages, root_package,
                   package_info, metadata_info, fd_index, NotNaming>>

\* Lines 116-120, reached when the loop over the files is exhausted.
CheckMetadata ==
    /\ pc = "collect"
    /\ fd_index = Len(file_descriptors)
    /\ IF Cardinality(metadata_info) > 1
       THEN Raise("ValueError: metadata")
       ELSE pc' = "write" /\ exc' = exc
    /\ UNCHANGED <<file_descriptors, proto_packages, root_package,
                   package_info, metadata_info, fd_index, self, assigned,
                   NotNaming>>

\* Lines 125-126: one iteration, writing the next field of package_info.
WritePackageField ==
    /\ pc = "write"
    /\ LET k == FieldOrder[Cardinality(assigned) + 1]
       IN  /\ self' = [self EXCEPT ![k] = package_info[k]]
           /\ assigned' = assigned \cup {k}
           /\ pc' = IF assigned' = Fields THEN "merge" ELSE "write"
    /\ UNCHANGED <<file_descriptors, proto_packages, root_package,
                   package_info, metadata_info, fd_index, exc, NotNaming>>

\* Lines 127-130 without the test of line 129: every field of the metadata
\* record overwrites the package-derived one.
Merged_unconditional(base, metadata) ==
    [k \in Fields |->
        IF metadata # {} THEN (CHOOSE r \in metadata : TRUE)[k] ELSE base[k]]

\* Lines 127-130: the fields of the one metadata record that are true
\* overwrite the package-derived ones.
Merged(base, metadata) ==
    [k \in Fields |->
        IF metadata # {} /\ FieldTruthy(k, (CHOOSE r \in metadata : TRUE)[k])
        THEN (CHOOSE r \in metadata : TRUE)[k]
        ELSE base[k]]

MergeMetadata ==
    /\ pc = "merge"
    /\ self' = Merged(self, metadata_info)
    /\ metadata_info' = {}
    /\ pc' = "done"
    /\ UNCHANGED <<file_descriptors, proto_packages, root_package,
                   package_info, fd_index, assigned, exc, NotNaming>>

NamingInit ==
    /\ file_descriptors \in SeqsUpTo(FileDescriptors, MaxFiles)
    /\ pc = "root_package"
    /\ proto_packages = {}
    /\ root_package = <<>>
    /\ package_info = NoNaming
    /\ metadata_info = {}
    /\ fd_index = 0
    /\ self = NoNaming
    /\ assigned = {}
    /\ exc = ""

NamingIdle ==
    /\ file_descriptors = <<>>
    /\ pc = "idle"
    /\ proto_packages = {}
    /\ root_package = <<>>
    /\ package_info = NoNaming
    /\ metadata_info = {}
    /\ fd_index = 0
    /\ self = NoNaming
    /\ assigned = {}
    /\ exc = ""

BoolIdle == inst = NoNaming /\ truth = ""

MethodIdle == http = [get |-> <<>>, post |-> <<>>] /\ headers = <<>>

ServiceIdle == methods = <<>> /\ modules = <<>> /\ lro = ""

Init == NamingInit /\ BoolIdle /\ MethodIdle /\ ServiceIdle /\ called = {}

Next ==
    \/ ComputeRootPackage
    \/ MatchPackage
    \/ CheckVersion
    \/ CollectMetadata
    \/ CheckMetadata
    \/ WritePackageField
    \/ MergeMetadata

Spec == Init /\ [][Next]_vars

\* ------------------------------------------------------------------------
\* Naming.__bool__
\* ------------------------------------------------------------------------
\* Lines 134-136. dataclasses.fields(self) returns a tuple of Field
\* objects, and a tuple has no attribute keys: the call raises
\* AttributeError before any field of the instance is read.
Naming__bool__(obj) == "AttributeError"

EvalBool ==
    /\ "__bool__" \notin called
    /\ truth' = Naming__bool__(inst)
    /\ called' = called \cup {"__bool__"}
    /\ UNCHANGED <<naming_vars, inst, method_vars, service_vars>>

\* The instances whose truth value is taken.
Instances ==
    [name : {<<>>, Acme, <<"L","i","b">>},
     namespace : {<<>>, <<Ns>>, <<<<"E","x">>, <<>>>>},
     version : {NoneVal, <<>>, <<"v","1">>},
     product_name : {<<>>, Acme},
     product_url : {<<>>, Url}]

InitBool ==
    /\ NamingIdle /\ MethodIdle /\ ServiceIdle /\ called = {}
    /\ inst \in Instances
    /\ truth = ""

NextBool == EvalBool

SpecBool == InitBool /\ [][NextBool]_vars

\* ------------------------------------------------------------------------
\* Method.field_headers
\* ------------------------------------------------------------------------
\* [\w\d_.] over the characters of the model.
WordChars == LowerLetters \cup UpperLetters \cup Digits \cup {"_", "."}

\* re.findall(r'\{([a-z][\w\d_.]+)=', s) scanning from index p: at each
\* index the pattern either matches (the group is kept and the scan goes on
\* after the '=') or the scan moves one character on. '=' is not in the
\* class, so the greedy run matches only when '=' follows it.
RECURSIVE findall(_, _)
findall(s, p) ==
    IF p > Len(s) THEN <<>>
    ELSE LET e == RunEnd(s, p + 2, WordChars)
         IN  IF /\ s[p] = "{"
                /\ At(s, p + 1) \in LowerLetters
                /\ e >= p + 2
                /\ At(s, e + 1) = "="
             THEN <<SubSeq(s, p + 1, e)>> \o findall(s, e + 2)
             ELSE findall(s, p + 1)

\* Lines 110-113.
field_headers(rule) ==
    IF rule.get # <<>> THEN findall(rule.get, 1) ELSE <<>>

EvalFieldHeaders ==
    /\ "field_headers" \notin called
    /\ headers' = field_headers(http)
    /\ called' = called \cup {"field_headers"}
    /\ UNCHANGED <<naming_vars, bool_vars, http, service_vars>>

PathChars == {"{", "a", "B", "=", "/", "."}

ExamplePaths ==
    {<<"/","v","1","/","{","p","a","r","e","n","t","=","p","r","o","j","e","c","t","s","/","*","}","/","i","t","e","m","s">>,
     <<"/","v","1","/","i","t","e","m","s">>,
     <<"/","v","1","/","{","n","=","*","}","/","{","n","a","m","e",".","i","d","=","*","}",":","g","e","t">>}

Paths == SeqsUpTo(PathChars, MaxPathLen) \cup ExamplePaths

\* The http annotation: its pattern is a oneof, so at most one of get and
\* post is set; a method without the annotation reads as the default rule.
HttpRules ==
    {[get |-> g, post |-> <<>>] : g \in Paths}
        \cup {[get |-> <<>>, post |-> q] : q \in ExamplePaths}

InitMethod ==
    /\ NamingIdle /\ BoolIdle /\ ServiceIdle /\ called = {}
    /\ http \in HttpRules
    /\ headers = <<>>

NextMethod == EvalFieldHeaders

SpecMethod == InitMethod /\ [][NextMethod]_vars

\* ------------------------------------------------------------------------
\* Service.pb2_modules and Service.has_lro
\* ------------------------------------------------------------------------
\* A MessageType, by what the properties read: meta.address.package (a
\* sequence of str) and meta.address.module.
Message(package, module) == [package |-> package, module |-> module]

\* None as Method.lro_payload or Method.lro_metadata.
NoMessage == Message(<<>>, NoneVal)

\* bool(message): MessageType defines neither __bool__ nor __len__ (and
\* __getattr__ is not consulted for them), so only None is false.
MessageTruth(m) == m # NoMessage

\* MessageType.pb2_module, lines 62-65.
pb2_module(m) == m.module \o <<"_","p","b","2">>

\* The (package, pb2_module) pair added to the answer for one message.
ModulePair(m) == <<JoinDot(m.package), pb2_module(m)>>

\* a < b for two tuples of two str.
PairLess(a, b) ==
    \/ StrLess(a[1], b[1])
    \/ a[1] = b[1] /\ StrLess(a[2], b[2])

\* tuple(sorted(answer))
RECURSIVE sorted(_)
sorted(S) ==
    IF S = {} THEN <<>>
    ELSE LET least == CHOOSE x \in S : \A y \in S : x = y \/ PairLess(x, y)
         IN  <<least>> \o sorted(S \ {least})

\* Lines 173-197: the set the loop over self.methods.values() builds.
ModuleSet(ms) ==
    UNION {{ModulePair(ms[n].input), ModulePair(ms[n].output)}
              \cup (IF MessageTruth(ms[n].lro_payload)
                    THEN {ModulePair(ms[n].lro_payload)} ELSE {})
              \cup (IF MessageTruth(ms[n].lro_metadata)
                    THEN {ModulePair(ms[n].lro_metadata)} ELSE {})
           : n \in DOMAIN ms}

\* Lines 173-198 without sorted(): the pairs in the order the loop first
\* meets them.
RECURSIVE FirstSeen(_)
FirstSeen(s) ==
    IF s = <<>> THEN <<>>
    ELSE LET r == FirstSeen(SubSeq(s, 1, Len(s) - 1))
         IN  IF s[Len(s)] \in Range(r) THEN r ELSE Append(r, s[Len(s)])

RECURSIVE Visited(_)
Visited(ms) ==
    IF ms = <<>> THEN <<>>
    ELSE <<ModulePair(ms[1].input), ModulePair(ms[1].output)>>
         \o (IF MessageTruth(ms[1].lro_payload)
             THEN <<ModulePair(ms[1].lro_payload)>> ELSE <<>>)
         \o (IF MessageTruth(ms[1].lro_metadata)
             THEN <<ModulePair(ms[1].lro_metadata)>> ELSE <<>>)
         \o Visited(Tail(ms))

pb2_modules_unsorted(ms) == FirstSeen(Visited(ms))

\* Lines 173-198.
pb2_modules(ms) == sorted(ModuleSet(ms))

\* Lines 201-203 reading either LRO reference of a method.
has_lro_any_reference(ms) ==
    \E n \in DOMAIN ms : \/ MessageTruth(ms[n].lro_payload)
                         \/ MessageTruth(ms[n].lro_metadata)

\* Lines 201-203: any([m.lro_payload for m in self.methods.values()])
has_lro(ms) == \E n \in DOMAIN ms : MessageTruth(ms[n].lro_payload)

EvalPb2Modules ==
    /\ "pb2_modules" \notin called
    /\ modules' = pb2_modules(methods)
    /\ called' = called \cup {"pb2_modules"}
    /\ UNCHANGED <<naming_vars, bool_vars, method_vars, methods, lro>>

EvalHasLro ==
    /\ "has_lro" \notin called
    /\ lro' = IF has_lro(methods) THEN "True" ELSE "False"
    /\ called' = called \cup {"has_lro"}
    /\ UNCHANGED <<naming_vars, bool_vars, method_vars, methods, modules>>

PkgA == <<<<"p","k","g">>, <<"a">>>>

PkgB == <<<<"p","k","g">>, <<"b">>>>

ModA == <<"m","o","d","_","a">>

ModB == <<"m","o","d","_","b">>

Messages == {Message(PkgA, ModA), Message(PkgB, ModB), Message(PkgB, ModA)}

Methods ==
    [input : Messages,
     output : Messages,
     lro_payload : {NoMessage, Message(PkgB, ModA)},
     lro_metadata : {NoMessage, Message(PkgA, ModB)}]

InitService ==
    /\ NamingIdle /\ BoolIdle /\ MethodIdle /\ called = {}
    /\ methods \in SeqsUpTo(Methods, MaxMethods)
    /\ modules = <<>>
    /\ lro = ""

NextService ==
    \/ EvalPb2Modules
    \/ EvalHasLro

SpecService == InitService /\ [][NextService]_vars


\* ========================================================================
\* Properties.
\* ========================================================================
Terminated == pc \in {"done", "raised"}

DistinctPackages == {file_descriptors[n].package : n \in DOMAIN file_descriptors}

\* The value the metadata annotation gives the field k of the identity.
AnnotatedValue(meta, k) ==
    CASE k = "name" -> IF meta.package_name # <<>> THEN meta.package_name
                                                   ELSE meta.product_name
      [] k = "namespace" -> meta.package_namespace
      [] k = "version" -> <<>>
      [] k = "product_name" -> meta.product_name
      [] k = "product_url" -> meta.product_url

\* C1: whenever resolution succeeds, every field of the identity holds the
\* value the files' metadata annotation gives it if that value is non-empty
\* and the package-derived value otherwise; the version is always the
\* package-derived one; an annotation with only product_name = "Acme
\* Library" gives name = product_name = "Acme Library".
C1_OverridePrecedence ==
    pc = "done" =>
        /\ \A n \in DOMAIN file_descriptors : \A k \in Fields :
              LET v == AnnotatedValue(file_descriptors[n].options, k)
              IN  self[k] = IF v # <<>> THEN v ELSE package_info[k]
        /\ self.version = package_info.version
        /\ \A n \in DOMAIN file_descriptors :
              file_descriptors[n].options = Meta(<<>>, <<>>, Acme, <<>>)
                  => self.name = Acme /\ self.product_name = Acme

\* C1 witness: resolution succeeded on a file annotated with only
\* product_name = "Acme Library"; name and product_name come from the
\* annotation, namespace and version from the package.
C1_Witness ==
    /\ pc = "done"
    /\ file_descriptors[1].options = Meta(<<>>, <<>>, Acme, <<>>)
    /\ self.name = Acme
    /\ self.product_name = Acme
    /\ self.namespace = package_info.namespace
    /\ self.namespace # <<>>

\* A full match of v[0-9]+(p[0-9]+)?((alpha|beta|test)[0-9])*.
IsVersionSegment(seg) == VersionGroup(<<".">> \o seg, 1) = seg

\* A package path <namespace segments>.<name>.<version>.
IsVersionedPackage(package) ==
    LET segs == SplitDot(package)
    IN  /\ Len(segs) >= 3
        /\ IsVersionSegment(segs[Len(segs)])
        /\ \A n \in 1..(Len(segs) - 1) : ~IsVersionSegment(segs[n])

\* C2: for a single package path <namespace segments>.<name>.<version> and
\* no metadata annotation, the identity Naming.__init__ yields has name =
\* the capitalized segment before the version, namespace = exactly the
\* capitalized preceding segments, version = the trailing segment.
C2_PackageDerivedIdentity ==
    (/\ pc = "done"
     /\ Len(file_descriptors) = 1
     /\ file_descriptors[1].options = NoMeta
     /\ IsVersionedPackage(file_descriptors[1].package))
    => LET segs == SplitDot(file_descriptors[1].package)
           last == Len(segs)
       IN  /\ self.name = Capitalize(segs[last - 1])
           /\ self.namespace = [n \in 1..(last - 2) |-> Capitalize(segs[n])]
           /\ self.version = segs[last]

\* The common prefix of the dot-split segment sequences, rejoined.
SegmentCommonPrefix(S) ==
    IF S = {} THEN <<>>
    ELSE LET one  == CHOOSE x \in S : TRUE
             segs == SplitDot(one)
             same == {n \in 0..Len(segs) :
                         \A y \in S : /\ Len(SplitDot(y)) >= n
                                      /\ SubSeq(SplitDot(y), 1, n) = SubSeq(segs, 1, n)}
             k    == CHOOSE n \in same : \A m \in same : m <= n
         IN  JoinDot(SubSeq(segs, 1, k))

\* C3: for more than one distinct package path whose common prefix holds no
\* version segment, Naming.__init__ fails with the ambiguous-version
\* ValueError and with no other failure. Stated for the files that all
\* declare a package and the runs in which commonprefix returned.
C3_AmbiguousVersionFailure ==
    (/\ Terminated
     /\ exc # "TypeError"
     /\ <<>> \notin DistinctPackages
     /\ Cardinality(DistinctPackages) > 1
     /\ LET segs == SplitDot(SegmentCommonPrefix(DistinctPackages))
        IN  \A n \in DOMAIN segs : ~IsVersionSegment(segs[n]))
    => exc = "ValueError: version"

\* The records of the files whose annotation is present and not all-empty.
NonEmptyRecords ==
    {MetadataNaming(file_descriptors[n].options) :
        n \in {m \in DOMAIN file_descriptors : file_descriptors[m].options # NoMeta}}

\* C4: Naming.__init__ fails with the conflicting-metadata error only when
\* the annotations hold more than one distinct non-empty record; files
\* without an annotation, or with equal annotations, do not make it fail.
C4_ConflictingMetadataFailure ==
    exc = "ValueError: metadata" => Cardinality(NonEmptyRecords) > 1

\* C5: both failure checks come before any field is assigned: an execution
\* that ends in a failure has written no field, and an execution that has
\* written a field ends with all five written.
C5_NoPartialIdentity ==
    /\ pc = "raised" => assigned = {}
    /\ (Terminated /\ assigned # {}) => (pc = "done" /\ assigned = Fields)

\* C5 witness: the conflicting-metadata failure, reached with nothing
\* written on the instance.
C5_Witness ==
    /\ exc = "ValueError: metadata"
    /\ assigned = {}
    /\ self = NoNaming

\* C10: lines 69-70 compute the root package, the string matched against
\* the naming grammar, as the common prefix of the package paths over whole
\* dot-delimited segments.
C10_RootPackageBySegments ==
    pc # "root_package"
    => /\ exc # "TypeError"
       /\ root_package = SegmentCommonPrefix(proto_packages)

\* C8: the truth value of a Naming instance is False when every field is
\* empty, True when at least one is not, and is always a boolean.
C8_EmptinessOfIdentity ==
    "__bool__" \in called
    => truth = IF \E k \in Fields : FieldTruthy(k, inst[k]) THEN "True"
                                                            ELSE "False"

\* The variables of a path template by the pattern \{([a-z][\w.]*)= .
RECURSIVE TemplateVariables(_, _)
TemplateVariables(s, p) ==
    IF p > Len(s) THEN <<>>
    ELSE LET e == RunEnd(s, p + 2, WordChars)
         IN  IF /\ s[p] = "{"
                /\ At(s, p + 1) \in LowerLetters
                /\ At(s, e + 1) = "="
             THEN <<SubSeq(s, p + 1, e)>> \o TemplateVariables(s, e + 2)
             ELSE TemplateVariables(s, p + 1)

\* C7: field_headers returns, in order, every variable of the GET path that
\* matches \{([a-z][\w.]*)= , single-letter ones included, and the empty
\* sequence when there is no such variable or no GET binding.
C7_FieldHeaders ==
    "field_headers" \in called
    => headers = IF http.get = <<>> THEN <<>>
                 ELSE TemplateVariables(http.get, 1)

Reverse(s) == [n \in DOMAIN s |-> s[Len(s) + 1 - n]]

\* The messages the methods reference.
ReferencedMessages ==
    UNION {{methods[n].input, methods[n].output} : n \in DOMAIN methods}
        \cup {methods[n].lro_payload : n \in DOMAIN methods}
        \cup {methods[n].lro_metadata : n \in DOMAIN methods}

\* C6: pb2_modules is strictly ascending by (package, module), so without
\* duplicates; its elements are exactly the pairs of every method's input
\* and output message and of every non-null lro_payload and lro_metadata;
\* it does not depend on the order of the methods.
C6_ReferencedModules ==
    "pb2_modules" \in called
    => /\ \A n \in 1..(Len(modules) - 1) : PairLess(modules[n], modules[n + 1])
       /\ Range(modules) =
              {<<JoinDot(m.package), m.module \o <<"_","p","b","2">>>> :
                  m \in ReferencedMessages \ {NoMessage}}
       /\ modules = pb2_modules(Reverse(methods))

\* C6 witness: methods referencing ("pkg.b", mod_b) and then ("pkg.a",
\* mod_a) give the pkg.a pair first.
C6_Witness ==
    /\ "pb2_modules" \in called
    /\ Len(methods) = 2
    /\ methods[1].input = Message(PkgB, ModB)
    /\ methods[2].input = Message(PkgA, ModA)
    /\ modules = <<ModulePair(Message(PkgA, ModA)), ModulePair(Message(PkgB, ModB))>>

\* C9: has_lro is true exactly when some method has a non-null lro_payload:
\* false for no methods and for methods with only an lro_metadata.
C9_HasLro ==
    "has_lro" \in called
    => /\ lro \in {"True", "False"}
       /\ lro = "True" <=> \E n \in DOMAIN methods :
                               methods[n].lro_payload # NoMessage
       /\ methods = <<>> => lro = "False"

\* C9 witness: a service whose one method carries only an lro_metadata.
C9_Witness ==
    /\ "has_lro" \in called
    /\ Len(methods) = 1
    /\ methods[1].lro_payload = NoMessage
    /\ methods[1].lro_metadata # NoMessage
    /\ lro = "False"

====
